---- MODULE Spec2Model ----
(***************************************************************************)
(* A model of git-sizer's size cache (src/src/sizes/sizes.go): the         *)
(* saturating counters, the tree decoder, the two store requests and the   *)
(* iterative, memoized traversal of SizeCache (TreeSize / fill /           *)
(* queueTree), against an object store fixed at construction.             *)
(***************************************************************************)
EXTENDS Integers, Sequences, FiniteSets, TLC

(***************************************************************************)
(* Counters.  Count is uint64 in the source; the model keeps the unsigned  *)
(* wrap-around arithmetic at a width of CountBits bits.                    *)
(***************************************************************************)
CountBits == 3

\* The element of a one-element set.  An intermediate result of the code is
\* bound as  Only({F(v) : v \in {e}}) : e is evaluated once, as the code
\* assigns it to a local variable once.
Only(S) == CHOOSE y \in S : TRUE

RECURSIVE Pow2(_)
Pow2(n) == IF n = 0 THEN 1 ELSE 2 * Pow2(n - 1)

Modulus == Pow2(CountBits)

MaxCount == Modulus - 1

Counts == 0 .. MaxCount

\* A Go conversion Count(x) of a non-negative integer.
ToCount(x) == x % Modulus

addCappedNoCheck(n1, n2) == (n1 + n2) % Modulus

addCapped(n1, n2) ==
    LET n == (n1 + n2) % Modulus
    IN  IF n < n1 THEN MaxCount ELSE n

(***************************************************************************)
(* Bytes and object identifiers.                                           *)
(***************************************************************************)
SP == 32

NUL == 0

OidLen == 20

\* ASCII '0'; the octal digits are Digit0 .. Digit0 + 7.
Digit0 == 48

OctalBase == 8

\* Values of more than 32 bits are a range error of ParseUint(s, 8, 32):
\* v * 8 + d exceeds 2^32 - 1 exactly when v >= 2^29.
ParseRangeLimit == 536870912

NoErr == "ok"

\* IndexByte finding the last index of byte b in data, not the first.
RECURSIVE IndexLastFrom(_, _, _)
IndexLastFrom(data, b, i) ==
    IF i < 1 THEN -1
    ELSE IF data[i] = b THEN i - 1
    ELSE IndexLastFrom(data, b, i - 1)

IndexByteLast(data, b) == IndexLastFrom(data, b, Len(data))

\* bytes.IndexByte: the first index (0-based) of byte b in data, or -1.
RECURSIVE IndexFrom(_, _, _)
IndexFrom(data, b, i) ==
    IF i > Len(data) THEN -1
    ELSE IF data[i] = b THEN i - 1
    ELSE IndexFrom(data, b, i + 1)

IndexByte(data, b) == IndexFrom(data, b, 1)

\* data[from:] with a 0-based offset.
SliceFrom(data, from) == SubSeq(data, from + 1, Len(data))

\* strconv.ParseUint(s, 8, 32).
RECURSIVE ParseOctalFrom(_, _, _)
ParseOctalFrom(s, i, v) ==
    IF i > Len(s) THEN [err |-> NoErr, val |-> v]
    ELSE IF s[i] < Digit0 \/ s[i] >= Digit0 + OctalBase
         THEN [err |-> "syntax", val |-> 0]
    ELSE IF v >= ParseRangeLimit THEN [err |-> "range", val |-> 0]
    ELSE ParseOctalFrom(s, i + 1, v * OctalBase + (s[i] - Digit0))

ParseUintOctal(s) ==
    IF Len(s) = 0 THEN [err |-> "syntax", val |-> 0]
    ELSE ParseOctalFrom(s, 1, 0)

NoEntry == [Name |-> << >>, Oid |-> << >>, Filemode |-> 0]

NextEntryErr(err, rest) ==
    [ok |-> FALSE, err |-> err, entry |-> NoEntry, rest |-> rest]

\* NextEntry from the identifier on: d2 is the data after the name's NUL.
NextEntryOid(mode, name, d2) ==
    IF Len(d2) < OidLen THEN NextEntryErr("format", d2)
    ELSE [ok |-> TRUE, err |-> NoErr,
          entry |-> [Name |-> name, Oid |-> SubSeq(d2, 1, OidLen),
                     Filemode |-> mode],
          rest |-> SliceFrom(d2, OidLen)]

\* NextEntry from the name on: d1 is the data after the mode's SP.
NextEntryName(mode, d1, nulAt) ==
    IF nulAt < 0 THEN NextEntryErr("format", d1)
    ELSE Only({NextEntryOid(mode, SubSeq(d1, 1, nulAt), d2) :
               d2 \in {SliceFrom(d1, nulAt + 1)}})

NextEntryMode(data, spAt, mode) ==
    IF mode.err # NoErr THEN NextEntryErr(mode.err, data)
    ELSE Only({Only({NextEntryName(mode.val, d1, nulAt) :
                     nulAt \in {IndexByte(d1, NUL)}}) :
               d1 \in {SliceFrom(data, spAt + 1)}})

NextEntrySP(data, spAt) ==
    IF spAt < 0 THEN NextEntryErr("format", data)
    ELSE Only({NextEntryMode(data, spAt, mode) :
               mode \in {ParseUintOctal(SubSeq(data, 1, spAt))}})

\* TreeIter.NextEntry on the unread data: ok (an entry was read), err, the
\* entry, and the data left unread.
NextEntry(data) ==
    IF Len(data) = 0 THEN NextEntryErr(NoErr, data)
    ELSE Only({NextEntrySP(data, spAt) :
               spAt \in {IndexByte(data, SP)}})

(***************************************************************************)
(* The kind of an entry: entry.Filemode & 0170000.                         *)
(***************************************************************************)
\* 0170000
ModeTypeMask == 61440

\* 0040000
ModeTree == 16384

\* 0160000
ModeCommit == 57344

\* 0120000
ModeSymlink == 40960

\* 010000, the lowest bit of the mask.
ModeTypeUnit == 4096

\* filemode & 0170000: the bits of filemode from ModeTypeUnit up to the mask's top.
MaskType(filemode) ==
    (filemode % (ModeTypeMask + ModeTypeUnit)) - (filemode % ModeTypeUnit)

EntryKind(filemode) ==
    IF MaskType(filemode) = ModeTree THEN "tree"
    ELSE IF MaskType(filemode) = ModeCommit THEN "submodule"
    ELSE IF MaskType(filemode) = ModeSymlink THEN "link"
    ELSE "blob"

(***************************************************************************)
(* TreeSize records and their merge arithmetic.                            *)
(***************************************************************************)
ZeroSize ==
    [MaxDepth |-> 0, MaxPathLength |-> 0, TreeCount |-> 0,
     MaxTreeEntries |-> 0, BlobCount |-> 0, BlobSize |-> 0,
     LinkCount |-> 0, SubmoduleCount |-> 0]

\* recordDepth without the comparison: the last depth recorded wins.
recordDepthLast(s, maxDepth) == [s EXCEPT !.MaxDepth = maxDepth]

recordDepth(s, maxDepth) ==
    IF maxDepth > s.MaxDepth THEN [s EXCEPT !.MaxDepth = maxDepth] ELSE s

recordPathLength(s, pathLength) ==
    IF pathLength > s.MaxPathLength
    THEN [s EXCEPT !.MaxPathLength = pathLength]
    ELSE s

\* addDescendent counting the subtree as one tree, whatever it holds.
addDescendentCountsOneTree(s, s2) ==
    [s EXCEPT
        !.TreeCount = addCapped(s.TreeCount, 1),
        !.MaxTreeEntries = IF s2.MaxTreeEntries > s.MaxTreeEntries
                           THEN s2.MaxTreeEntries
                           ELSE s.MaxTreeEntries,
        !.BlobCount = addCapped(s.BlobCount, s2.BlobCount),
        !.BlobSize = addCapped(s.BlobSize, s2.BlobSize),
        !.LinkCount = addCapped(s.LinkCount, s2.LinkCount),
        !.SubmoduleCount = addCapped(s.SubmoduleCount, s2.SubmoduleCount)]

\* The sums and the entry maximum of addDescendent.
addDescendentCounts(s, s2) ==
    [s EXCEPT
        !.TreeCount = addCapped(s.TreeCount, s2.TreeCount),
        !.MaxTreeEntries = IF s2.MaxTreeEntries > s.MaxTreeEntries
                           THEN s2.MaxTreeEntries
                           ELSE s.MaxTreeEntries,
        !.BlobCount = addCapped(s.BlobCount, s2.BlobCount),
        !.BlobSize = addCapped(s.BlobSize, s2.BlobSize),
        !.LinkCount = addCapped(s.LinkCount, s2.LinkCount),
        !.SubmoduleCount = addCapped(s.SubmoduleCount, s2.SubmoduleCount)]

\* addDescendent without the test of s2.MaxPathLength: the separator is
\* added for an empty subtree too.
addDescendentAlwaysSep(s, filename, s2) ==
    addDescendentCounts(
        recordPathLength(
            recordDepth(s, s2.MaxDepth),
            addCapped(ToCount(ToCount(Len(filename)) + 1), s2.MaxPathLength)),
        s2)

addDescendent(s, filename, s2) ==
    Only({addDescendentCounts(s1, s2) :
          s1 \in {Only({recordPathLength(
                            s0,
                            IF s2.MaxPathLength > 0
                            THEN addCapped(
                                     ToCount(ToCount(Len(filename)) + 1),
                                     s2.MaxPathLength)
                            ELSE ToCount(Len(filename))) :
                        s0 \in {recordDepth(s, s2.MaxDepth)}})}})

\* recordDepth(1) and recordPathLength(len(filename)), as the three
\* add-a-leaf methods start.
recordLeaf(s, filename) ==
    Only({recordPathLength(s0, ToCount(Len(filename))) :
          s0 \in {recordDepth(s, 1)}})

addBlobCounts(s, size) ==
    [s EXCEPT !.BlobSize = addCapped(s.BlobSize, size),
              !.BlobCount = addCapped(s.BlobCount, 1)]

addBlob(s, filename, size) ==
    Only({addBlobCounts(s1, size) :
          s1 \in {recordLeaf(s, filename)}})

addLinkCount(s) == [s EXCEPT !.LinkCount = addCapped(s.LinkCount, 1)]

addLink(s, filename) == addLinkCount(recordLeaf(s, filename))

addSubmoduleCount(s) ==
    [s EXCEPT !.SubmoduleCount = addCapped(s.SubmoduleCount, 1)]

addSubmodule(s, filename) == addSubmoduleCount(recordLeaf(s, filename))

(***************************************************************************)
(* The object store behind the two cat-file channels.  An object is a     *)
(* record: its type, its size as the header reports it, and (for a tree)   *)
(* its payload bytes.  An identifier outside the store's domain is         *)
(* reported "missing".                                                     *)
(***************************************************************************)
VARIABLES
    store,      \* the object store (fixed at construction)
    blobSizes,  \* cache.blobSizes : Oid -> BlobSize
    treeSizes,  \* cache.treeSizes : Oid -> TreeSize
    todo,       \* cache.todo.list
    pc,         \* "idle": between top-level calls; "fill": inside fill();
                \* "crashed": the process ended in a run-time panic
    call,       \* the top-level call in progress, or the last one
    ret,        \* what the last top-level call returned
    pre,        \* the cache as it was when the last top-level call started
    reqs,       \* requests written to each channel during that call
    writes,     \* per tree identifier, the assignments to treeSizes[oid]
    done,       \* what the top-level calls before that call returned
    ncalls,     \* top-level calls made so far
    batch,      \* objects whose payload is unread on the --batch channel
    dec,        \* a TreeIter run over one payload, on its own
    rgb,        \* the RefGroupBuilder and the last filterValue.Set on it
    tried       \* per tree, the queueTree calls that ended in NotYetKnown

vars == <<store, blobSizes, treeSizes, todo, pc, call, ret, pre, reqs,
          writes, done, ncalls, batch, dec, rgb, tried>>

MissingObject ==
    [type |-> "missing", size |-> 0, data |-> << >>, entries |-> << >>]

Lookup(oid) == IF oid \in DOMAIN store THEN store[oid] ELSE MissingObject

\* m[k] = v on a Go map.
MapSet(m, k, v) == [x \in DOMAIN m \cup {k} |-> IF x = k THEN v ELSE m[x]]

\* The header the store answers for obj, as ReadHeader returns it.
HeaderOf(obj) ==
    IF obj.type = "missing"
    THEN [type |-> "missing", size |-> 0, err |-> "missing"]
    ELSE [type |-> obj.type, size |-> ToCount(obj.size), err |-> NoErr]

\* Repository.ReadHeader: one request on the --batch-check channel.
ReadHeader(oid) == HeaderOf(Lookup(oid))

\* ReadTree on the header of oid's own response.  A missing object has no
\* payload; a tree's payload is read; the payload of any other object is
\* left unread on the channel.
TreeOf(oid, obj) ==
    IF obj.type = "missing"
    THEN [data |-> << >>, err |-> "missing", left |-> << >>]
    ELSE IF obj.type = "tree"
    THEN [data |-> obj.data, err |-> NoErr, left |-> << >>]
    ELSE [data |-> << >>, err |-> "type", left |-> <<oid>>]

\* Repository.ReadTree: one request on the --batch channel, on which the
\* payloads of the objects in left are unread.  The payloads of the stores'
\* blobs, commits and tags hold no SP: the line ReadTree takes for its
\* header is then one word, and words[1] is a run-time panic ("crash").
ReadTree(oid, left) ==
    IF left # << >>
    THEN [data |-> << >>, err |-> "crash", left |-> Append(left, oid)]
    ELSE TreeOf(oid, Lookup(oid))

(***************************************************************************)
(* SizeCache.BlobSize on a cache whose blob table is bs: the error, the    *)
(* size, the blob table afterwards and the header requests made.           *)
(***************************************************************************)
\* BlobSize storing the size before it looks at ReadHeader's error.
BlobSizeMissStoreFirst(bs, oid, h) ==
    IF h.err # NoErr
    THEN [err |-> h.err, size |-> 0, blobSizes |-> MapSet(bs, oid, h.size),
          checkReqs |-> 1]
    ELSE IF h.type # "blob"
    THEN [err |-> "type", size |-> 0, blobSizes |-> bs, checkReqs |-> 1]
    ELSE [err |-> NoErr, size |-> h.size,
          blobSizes |-> MapSet(bs, oid, h.size), checkReqs |-> 1]

BlobSizeMiss(bs, oid, h) ==
    IF h.err # NoErr
    THEN [err |-> h.err, size |-> 0, blobSizes |-> bs, checkReqs |-> 1]
    ELSE IF h.type # "blob"
    THEN [err |-> "type", size |-> 0, blobSizes |-> bs, checkReqs |-> 1]
    ELSE [err |-> NoErr, size |-> h.size,
          blobSizes |-> MapSet(bs, oid, h.size), checkReqs |-> 1]

BlobSizeOf(bs, oid) ==
    IF oid \in DOMAIN bs
    THEN [err |-> NoErr, size |-> bs[oid], blobSizes |-> bs, checkReqs |-> 0]
    ELSE BlobSizeMiss(bs, oid, ReadHeader(oid))

(***************************************************************************)
(* SizeCache.queueTree.  The loop over the entries carries st: the unread  *)
(* data, the record so far, ok, entryCount, and the parts of the cache the *)
(* loop changes (blobSizes, todo) with the header requests it made.        *)
(***************************************************************************)
\* Push appending the identifier twice.
PushTwice(list, oid) == Append(Append(list, oid), oid)

\* ToDoList.Push, Peek and Drop.
Push(list, oid) == Append(list, oid)

Peek(list) == list[Len(list)]

Drop(list) == SubSeq(list, 1, Len(list) - 1)

\* case entry.Filemode&0170000 == 0040000
queueTreeSubtree(st, entry, ts) ==
    IF entry.Oid \in DOMAIN ts
    THEN IF st.ok
         THEN [st EXCEPT
                 !.size = addDescendent(st.size, entry.Name, ts[entry.Oid])]
         ELSE st
    ELSE [st EXCEPT !.ok = FALSE, !.todo = Push(st.todo, entry.Oid)]

\* default: the blob is not in cache.blobSizes; b is what BlobSize returned.
queueTreeBlobMiss(st, entry, b) ==
    IF b.err # NoErr
    THEN [st EXCEPT !.err = b.err,
                    !.checkReqs = st.checkReqs + b.checkReqs]
    ELSE [st EXCEPT !.size = addBlob(st.size, entry.Name, b.size),
                    !.blobSizes = b.blobSizes,
                    !.checkReqs = st.checkReqs + b.checkReqs]

\* A blob entry whose size is already in cache.blobSizes is not added.
queueTreeBlobSkipCached(st, entry) ==
    IF entry.Oid \in DOMAIN st.blobSizes THEN st
    ELSE Only({queueTreeBlobMiss(st, entry, b) :
               b \in {BlobSizeOf(st.blobSizes, entry.Oid)}})

\* default: a blob entry.
queueTreeBlob(st, entry) ==
    IF entry.Oid \in DOMAIN st.blobSizes
    THEN IF st.ok
         THEN [st EXCEPT
                 !.size = addBlob(st.size, entry.Name,
                                  st.blobSizes[entry.Oid])]
         ELSE st
    ELSE Only({queueTreeBlobMiss(st, entry, b) :
               b \in {BlobSizeOf(st.blobSizes, entry.Oid)}})

\* The switch on the entry's kind.
queueTreeSwitch(st, entry, ts, kind) ==
    IF kind = "tree" THEN queueTreeSubtree(st, entry, ts)
    ELSE IF kind = "submodule"
    THEN IF st.ok
         THEN [st EXCEPT !.size = addSubmodule(st.size, entry.Name)]
         ELSE st
    ELSE IF kind = "link"
    THEN IF st.ok
         THEN [st EXCEPT !.size = addLink(st.size, entry.Name)]
         ELSE st
    ELSE queueTreeBlob(st, entry)

\* The loop's body for one entry: entryCount += 1, then the switch.
queueTreeEntry(st, entry, ts) ==
    Only({queueTreeSwitch(st1, entry, ts, EntryKind(entry.Filemode)) :
          st1 \in {[st EXCEPT !.entryCount = (st.entryCount + 1) % Modulus]}})

RECURSIVE queueTreeLoop(_, _)
\* After an entry: an error of BlobSize returns, otherwise the loop goes on.
queueTreeAfter(next, ts) ==
    IF next.err # NoErr THEN next ELSE queueTreeLoop(next, ts)

\* The loop on what NextEntry returned, for an entry.
queueTreeOnEntry(st, ts, n) ==
    Only({queueTreeAfter(next, ts) :
          next \in {Only({queueTreeEntry(st0, n.entry, ts) :
                          st0 \in {[st EXCEPT !.data = n.rest]}})}})

\* The loop on what NextEntry returned.
queueTreeOn(st, ts, n) ==
    IF n.err # NoErr THEN [st EXCEPT !.err = n.err]
    ELSE IF ~n.ok THEN st
    ELSE queueTreeOnEntry(st, ts, n)

queueTreeLoop(st, ts) ==
    Only({queueTreeOn(st, ts, n) :
          n \in {NextEntry(st.data)}})

\* After the loop: NotYetKnown, or the record with this tree's own level and
\* entry count.
queueTreeFinish(st) ==
    IF st.err # NoErr \/ ~st.ok
    THEN [err |-> IF st.err # NoErr THEN st.err ELSE "NotYetKnown",
          size |-> ZeroSize, blobSizes |-> st.blobSizes, todo |-> st.todo,
          checkReqs |-> st.checkReqs, batchReqs |-> 1, left |-> st.left]
    ELSE [err |-> NoErr,
          size |-> [st.size EXCEPT
                      !.MaxDepth = addCapped(st.size.MaxDepth, 1),
                      !.MaxTreeEntries =
                          IF st.entryCount > st.size.MaxTreeEntries
                          THEN st.entryCount
                          ELSE st.size.MaxTreeEntries],
          blobSizes |-> st.blobSizes, todo |-> st.todo,
          checkReqs |-> st.checkReqs, batchReqs |-> 1, left |-> st.left]

queueTreeRead(tree, bs, ts, td) ==
    IF tree.err # NoErr
    THEN [err |-> tree.err, size |-> ZeroSize, blobSizes |-> bs,
          todo |-> td, checkReqs |-> 0, batchReqs |-> 1,
          left |-> tree.left]
    ELSE Only({queueTreeFinish(st) :
               st \in {queueTreeLoop(
                           [data |-> tree.data,
                            size |-> [ZeroSize EXCEPT !.TreeCount = 1],
                            ok |-> TRUE, entryCount |-> 0, err |-> NoErr,
                            blobSizes |-> bs, todo |-> td, checkReqs |-> 0,
                            left |-> tree.left],
                           ts)}})

\* The result of queueTree(oid): err, the record, and the cache's blobSizes
\* and todo afterwards, with the requests made on each channel.
queueTree(oid, bs, ts, td, left) ==
    queueTreeRead(ReadTree(oid, left), bs, ts, td)

(***************************************************************************)
(* The stores the cache is run against.  Identifiers are 20 bytes; their   *)
(* bytes include SP and NUL, which the decoder must not take for           *)
(* separators.  Trees only refer to objects created before them, so the    *)
(* graph is acyclic, as in a content-addressed store.                      *)
(***************************************************************************)
MkOid(i) ==
    [k \in 1 .. OidLen |->
        IF k = 1 THEN i
        ELSE IF k = 2 THEN NUL
        ELSE IF k = 3 THEN SP
        ELSE Digit0 + 1]

OidAbsent == MkOid(9)

OidT1 == MkOid(1)

OidT2 == MkOid(2)

OidT3 == MkOid(3)

OidLeaf == MkOid(4)

OidCommit == MkOid(5)

OidTag == MkOid(6)

AllOids == {OidAbsent, OidT1, OidT2, OidT3, OidLeaf, OidCommit, OidTag}

TreeOids == {OidT1, OidT2, OidT3}

\* Sizes of the blobs in the stores.
SmallBlob == 2

BigBlob == 5

Octal(digits) == [k \in DOMAIN digits |-> Digit0 + digits[k]]

DirMode == Octal(<<4, 0, 0, 0, 0>>)

FileMode == Octal(<<1, 0, 0, 6, 4, 4>>)

ExecMode == Octal(<<1, 0, 0, 7, 5, 5>>)

LinkMode == Octal(<<1, 2, 0, 0, 0, 0>>)

GitlinkMode == Octal(<<1, 6, 0, 0, 0, 0>>)

\* A name of n bytes ('a' repeated).
NameOf(n) == [k \in 1 .. n |-> 97]

\* The tree format: <octal mode> SP <name> NUL <20-byte identifier>.
EncodeEntry(e) == e.mode \o <<SP>> \o e.name \o <<NUL>> \o e.oid

RECURSIVE EncodeTree(_)
EncodeTree(entries) ==
    IF entries = << >> THEN << >>
    ELSE EncodeEntry(Head(entries)) \o EncodeTree(Tail(entries))

Ent(mode, n, oid) == [mode |-> mode, name |-> NameOf(n), oid |-> oid]

\* An object of the store: its type, its size, its payload (of a tree), and
\* the entries the payload was written from (the decoder never sees them).
Object(type, size) ==
    [type |-> type, size |-> size, data |-> << >>, entries |-> << >>]

BlobObject(size) == Object("blob", size)

TreeObject(data, entries) ==
    [type |-> "tree", size |-> Len(data), data |-> data,
     entries |-> entries]

Tree(entries) == TreeObject(EncodeTree(entries), entries)

\* data without its last k bytes.
CutShort(data, k) == SubSeq(data, 1, Len(data) - k)

\* The payload cut short by k bytes: it ends inside the last identifier.
Truncated(entries, k) == TreeObject(CutShort(EncodeTree(entries), k), entries)

LeafChoices == {BlobObject(BigBlob)}

T3Choices ==
    { Tree(<< >>),
      Tree(<<Ent(FileMode, 1, OidLeaf)>>),
      Tree(<<Ent(FileMode, 1, OidLeaf), Ent(ExecMode, 2, OidLeaf)>>),
      Tree(<<Ent(LinkMode, 1, OidLeaf), Ent(GitlinkMode, 2, OidAbsent)>>) }

T2Choices ==
    { Tree(<<Ent(DirMode, 1, OidT3)>>),
      Tree(<<Ent(DirMode, 1, OidT3), Ent(DirMode, 2, OidT3)>>),
      Tree(<<Ent(DirMode, 2, OidT3), Ent(FileMode, 1, OidLeaf),
             Ent(DirMode, 1, OidT3)>>),
      Tree(<<Ent(DirMode, 2, OidT3), Ent(GitlinkMode, 1, OidAbsent)>>) }

T1Choices ==
    { Tree(<<Ent(DirMode, 1, OidT2)>>),
      Tree(<<Ent(DirMode, 1, OidT2), Ent(DirMode, 2, OidT2)>>),
      Tree(<<Ent(DirMode, 1, OidT2), Ent(DirMode, 1, OidT3)>>),
      Tree(<<Ent(DirMode, 2, OidT3), Ent(FileMode, 1, OidLeaf),
             Ent(DirMode, 1, OidT2)>>) }

MkStore(t1, t2, t3, leaf) ==
    (OidT1 :> t1) @@ (OidT2 :> t2) @@ (OidT3 :> t3) @@ (OidLeaf :> leaf)
    @@ (OidCommit :> Object("commit", 1)) @@ (OidTag :> Object("tag", 1))

\* Stores in which every object a tree refers to is present and of the type
\* the entry's mode says.
SoundStores ==
    { MkStore(t1, t2, t3, leaf) :
        t1 \in T1Choices, t2 \in T2Choices, t3 \in T3Choices,
        leaf \in LeafChoices }

BaseT1 == Tree(<<Ent(DirMode, 1, OidT2), Ent(DirMode, 2, OidT3)>>)

BaseT2 == Tree(<<Ent(DirMode, 1, OidT3), Ent(FileMode, 1, OidLeaf)>>)

BaseT3 == Tree(<<Ent(FileMode, 1, OidLeaf)>>)

BaseLeaf == BlobObject(SmallBlob)

\* Stores with one damaged, missing or mistyped object.
DamagedStores ==
    { MkStore(BaseT1, BaseT2, BaseT3, MissingObject),
      MkStore(BaseT1, BaseT2, MissingObject, BaseLeaf),
      MkStore(BaseT1, BaseT2, BaseT3, Tree(<< >>)),
      MkStore(BaseT1, BaseT2,
              Truncated(<<Ent(FileMode, 1, OidLeaf)>>, 1), BaseLeaf),
      MkStore(BaseT1, BaseT2,
              Truncated(<<Ent(FileMode, 1, OidLeaf),
                          Ent(FileMode, 2, OidLeaf)>>, OidLen), BaseLeaf),
      MkStore(BaseT1,
              Truncated(<<Ent(DirMode, 1, OidT3),
                          Ent(FileMode, 1, OidLeaf)>>, 3),
              BaseT3, BaseLeaf),
      MkStore(BaseT1,
              Tree(<<Ent(DirMode, 1, OidT3), Ent(DirMode, 1, OidCommit)>>),
              BaseT3, BaseLeaf),
      MkStore(BaseT1,
              Tree(<<Ent(DirMode, 1, OidAbsent), Ent(FileMode, 1, OidLeaf)>>),
              BaseT3, BaseLeaf),
      MkStore(BaseT1, BaseT2, BlobObject(SmallBlob), BaseLeaf),
      MkStore(BaseT1, BaseT2, TreeObject(DirMode \o NameOf(1), << >>), BaseLeaf),
      MkStore(BaseT1, BaseT2,
              TreeObject(FileMode \o <<SP>> \o NameOf(2), << >>), BaseLeaf),
      MkStore(BaseT1, BaseT2,
              TreeObject(NameOf(2) \o <<SP>> \o NameOf(1) \o <<NUL>>
                         \o OidLeaf, << >>),
              BaseLeaf) }

Stores == SoundStores \cup DamagedStores

(***************************************************************************)
(* The cache as a state machine.  A top-level call that misses the tree    *)
(* table pushes its identifier and runs fill(); each iteration of fill's   *)
(* loop is one step.                                                       *)
(***************************************************************************)
\* The number of top-level calls in a history.
MaxCalls == 2

EmptyMap == [x \in {} |-> 0]

NoRet ==
    [op |-> "none", oid |-> OidAbsent, err |-> NoErr, type |-> "none",
     blob |-> 0, tree |-> ZeroSize]

Snapshot == [blobSizes |-> blobSizes, treeSizes |-> treeSizes, todo |-> todo]

\* No option has been set on the RefGroupBuilder.
NoSet ==
    [called |-> FALSE, v |-> [combiner |-> "include", pattern |-> << >>,
                              regexp |-> FALSE],
     s |-> << >>, err |-> NoErr, pre |-> << >>, defined |-> {},
     new |-> [kind |-> "none", arg |-> << >>]]

NoBuilder == [groups |-> {}, filter |-> << >>, sets |-> 0, last |-> NoSet]

\* No TreeIter is run on its own.
NoDecode ==
    [entries |-> << >>, cut |-> 0, data |-> << >>, out |-> << >>,
     state |-> "off", before |-> 0]

Init ==
    /\ store \in Stores
    /\ blobSizes = EmptyMap
    /\ treeSizes = EmptyMap
    /\ todo = << >>
    /\ pc = "idle"
    /\ call = [op |-> "none", oid |-> OidAbsent]
    /\ ret = NoRet
    /\ pre = [blobSizes |-> EmptyMap, treeSizes |-> EmptyMap, todo |-> << >>]
    /\ reqs = [check |-> 0, batch |-> 0]
    /\ writes = EmptyMap
    /\ done = {}
    /\ ncalls = 0
    /\ batch = << >>
    /\ dec = NoDecode
    /\ rgb = NoBuilder
    /\ tried = EmptyMap

WriteCount(oid) == IF oid \in DOMAIN writes THEN writes[oid] ELSE 0

\* What TreeSize(oid) returns to op's caller once the record is in the table.
TreeReturn(op, oid, ts) ==
    [op |-> op, oid |-> oid, err |-> NoErr, type |-> "tree", blob |-> 0,
     tree |-> ts[oid]]

ErrReturn(op, oid, err, type) ==
    [op |-> op, oid |-> oid, err |-> err, type |-> type, blob |-> 0,
     tree |-> ZeroSize]

\* TreeSize without the look-up in cache.treeSizes.
TreeSizeEnterNoLookup(op, oid) ==
    /\ todo' = Push(todo, oid)
    /\ pc' = "fill"
    /\ ret' = ret

\* SizeCache.TreeSize up to its call of fill(): a hit returns the record, a
\* miss pushes oid and enters fill().
TreeSizeEnter(op, oid) ==
    IF oid \in DOMAIN treeSizes
    THEN /\ ret' = TreeReturn(op, oid, treeSizes)
         /\ pc' = "idle"
         /\ todo' = todo
    ELSE /\ todo' = Push(todo, oid)
         /\ pc' = "fill"
         /\ ret' = ret

Begin(op, oid) ==
    /\ pc = "idle"
    /\ ncalls < MaxCalls
    /\ ncalls' = ncalls + 1
    /\ call' = [op |-> op, oid |-> oid]
    /\ pre' = Snapshot
    /\ done' = IF ret.op = "none" THEN done ELSE done \cup {ret}

\* SizeCache.TreeSize(oid), called at the top level.
CallTreeSize(oid) ==
    /\ Begin("TreeSize", oid)
    /\ TreeSizeEnter("TreeSize", oid)
    /\ reqs' = [check |-> 0, batch |-> 0]
    /\ UNCHANGED <<store, blobSizes, treeSizes, writes, batch, dec, rgb, tried>>

BlobSizeReturn(oid, b) ==
    /\ blobSizes' = b.blobSizes
    /\ reqs' = [check |-> b.checkReqs, batch |-> 0]
    /\ ret' = [op |-> "BlobSize", oid |-> oid, err |-> b.err,
               type |-> "blob", blob |-> b.size, tree |-> ZeroSize]

\* SizeCache.BlobSize(oid), called at the top level.
CallBlobSize(oid) ==
    /\ Begin("BlobSize", oid)
    /\ BlobSizeReturn(oid, BlobSizeOf(blobSizes, oid))
    /\ UNCHANGED <<store, treeSizes, todo, pc, writes, batch, dec, rgb, tried>>

\* ObjectSize handing every object that is not a blob to TreeSize.
ObjectSizeSwitchAllTrees(oid, h) ==
    IF h.err # NoErr
    THEN /\ ret' = ErrReturn("ObjectSize", oid, h.err, "missing")
         /\ UNCHANGED <<blobSizes, todo, pc>>
    ELSE IF h.type = "blob"
    THEN /\ blobSizes' = MapSet(blobSizes, oid, h.size)
         /\ ret' = [op |-> "ObjectSize", oid |-> oid, err |-> NoErr,
                    type |-> "blob", blob |-> h.size, tree |-> ZeroSize]
         /\ UNCHANGED <<todo, pc>>
    ELSE /\ TreeSizeEnter("ObjectSize", oid)
         /\ UNCHANGED blobSizes

\* ObjectSize after its ReadHeader returned h.
ObjectSizeSwitch(oid, h) ==
    IF h.err # NoErr
    THEN /\ ret' = ErrReturn("ObjectSize", oid, h.err, "missing")
         /\ UNCHANGED <<blobSizes, todo, pc>>
    ELSE IF h.type = "blob"
    THEN /\ blobSizes' = MapSet(blobSizes, oid, h.size)
         /\ ret' = [op |-> "ObjectSize", oid |-> oid, err |-> NoErr,
                    type |-> "blob", blob |-> h.size, tree |-> ZeroSize]
         /\ UNCHANGED <<todo, pc>>
    ELSE IF h.type = "tree"
    THEN /\ TreeSizeEnter("ObjectSize", oid)
         /\ UNCHANGED blobSizes
    ELSE /\ ret' = ErrReturn("ObjectSize", oid, "type", h.type)
         /\ UNCHANGED <<blobSizes, todo, pc>>

\* SizeCache.ObjectSize(oid), called at the top level.
CallObjectSize(oid) ==
    /\ Begin("ObjectSize", oid)
    /\ reqs' = [check |-> 1, batch |-> 0]
    /\ ObjectSizeSwitch(oid, ReadHeader(oid))
    /\ UNCHANGED <<store, treeSizes, writes, batch, dec, rgb, tried>>

TriedCount(oid) == IF oid \in DOMAIN tried THEN tried[oid] ELSE 0

\* fill() putting a tree whose queueTree returned NotYetKnown back on top of
\* the list, above the subtrees queueTree pushed.
FillAttemptRequeues(oid, q) ==
    /\ reqs' = [check |-> reqs.check + q.checkReqs,
                batch |-> reqs.batch + q.batchReqs]
    /\ blobSizes' = q.blobSizes
    /\ batch' = q.left
    /\ tried' = IF q.err = "NotYetKnown"
                THEN MapSet(tried, oid, TriedCount(oid) + 1)
                ELSE tried
    /\ IF q.err = NoErr
       THEN /\ treeSizes' = MapSet(treeSizes, oid, q.size)
            /\ writes' = MapSet(writes, oid, WriteCount(oid) + 1)
            /\ todo' = Drop(q.todo)
            /\ UNCHANGED <<pc, ret>>
       ELSE IF q.err = "NotYetKnown"
       THEN /\ todo' = Push(q.todo, oid)
            /\ UNCHANGED <<treeSizes, writes, pc, ret>>
       ELSE /\ todo' = q.todo
            /\ pc' = IF q.err = "crash" THEN "crashed" ELSE "idle"
            /\ ret' = ErrReturn(call.op, call.oid, q.err, "tree")
            /\ UNCHANGED <<treeSizes, writes>>

\* fill() storing what queueTree returned with NotYetKnown, too.
FillAttemptStoresPartial(oid, q) ==
    /\ reqs' = [check |-> reqs.check + q.checkReqs,
                batch |-> reqs.batch + q.batchReqs]
    /\ blobSizes' = q.blobSizes
    /\ batch' = q.left
    /\ tried' = IF q.err = "NotYetKnown"
                THEN MapSet(tried, oid, TriedCount(oid) + 1)
                ELSE tried
    /\ IF q.err = NoErr
       THEN /\ treeSizes' = MapSet(treeSizes, oid, q.size)
            /\ writes' = MapSet(writes, oid, WriteCount(oid) + 1)
            /\ todo' = Drop(q.todo)
            /\ UNCHANGED <<pc, ret>>
       ELSE IF q.err = "NotYetKnown"
       THEN /\ treeSizes' = MapSet(treeSizes, oid, q.size)
            /\ writes' = MapSet(writes, oid, WriteCount(oid) + 1)
            /\ todo' = q.todo
            /\ UNCHANGED <<pc, ret>>
       ELSE /\ todo' = q.todo
            /\ pc' = IF q.err = "crash" THEN "crashed" ELSE "idle"
            /\ ret' = ErrReturn(call.op, call.oid, q.err, "tree")
            /\ UNCHANGED <<treeSizes, writes>>

\* fill() dropping an identifier whose queueTree failed and carrying on.
FillAttemptSkipsFailed(oid, q) ==
    /\ reqs' = [check |-> reqs.check + q.checkReqs,
                batch |-> reqs.batch + q.batchReqs]
    /\ blobSizes' = q.blobSizes
    /\ batch' = q.left
    /\ tried' = IF q.err = "NotYetKnown"
                THEN MapSet(tried, oid, TriedCount(oid) + 1)
                ELSE tried
    /\ IF q.err = NoErr
       THEN /\ treeSizes' = MapSet(treeSizes, oid, q.size)
            /\ writes' = MapSet(writes, oid, WriteCount(oid) + 1)
            /\ todo' = Drop(q.todo)
            /\ UNCHANGED <<pc, ret>>
       ELSE IF q.err = "NotYetKnown"
       THEN /\ todo' = q.todo
            /\ UNCHANGED <<treeSizes, writes, pc, ret>>
       ELSE /\ todo' = Drop(todo)
            /\ UNCHANGED <<treeSizes, writes, pc, ret>>

\* fill() on what queueTree(oid) returned.
FillAttempt(oid, q) ==
    /\ reqs' = [check |-> reqs.check + q.checkReqs,
                batch |-> reqs.batch + q.batchReqs]
    /\ blobSizes' = q.blobSizes
    /\ batch' = q.left
    /\ tried' = IF q.err = "NotYetKnown"
                THEN MapSet(tried, oid, TriedCount(oid) + 1)
                ELSE tried
    /\ IF q.err = NoErr
       THEN /\ treeSizes' = MapSet(treeSizes, oid, q.size)
            /\ writes' = MapSet(writes, oid, WriteCount(oid) + 1)
            /\ todo' = Drop(q.todo)
            /\ UNCHANGED <<pc, ret>>
       ELSE IF q.err = "NotYetKnown"
       THEN /\ todo' = q.todo
            /\ UNCHANGED <<treeSizes, writes, pc, ret>>
       ELSE /\ todo' = q.todo
            /\ pc' = IF q.err = "crash" THEN "crashed" ELSE "idle"
            /\ ret' = ErrReturn(call.op, call.oid, q.err, "tree")
            /\ UNCHANGED <<treeSizes, writes>>

\* fill() without the test whether the identifier on top was computed since
\* it was enqueued.
FillTopNoLookup(oid) ==
    \E q \in {queueTree(oid, blobSizes, treeSizes, todo, batch)} : FillAttempt(oid, q)

\* fill() whose test finds the identifier computed and continues without
\* dropping it.
FillTopNoDrop(oid) ==
    IF oid \in DOMAIN treeSizes
    THEN UNCHANGED <<blobSizes, treeSizes, todo, pc, ret, reqs, writes,
                     batch, tried>>
    ELSE \E q \in {queueTree(oid, blobSizes, treeSizes, todo, batch)} :
             FillAttempt(oid, q)

\* fill() on the identifier on top of the list.
FillTop(oid) ==
    IF oid \in DOMAIN treeSizes
    THEN /\ todo' = Drop(todo)
         /\ UNCHANGED <<blobSizes, treeSizes, pc, ret, reqs, writes, batch,
                         tried>>
    ELSE \E q \in {queueTree(oid, blobSizes, treeSizes, todo, batch)} :
             FillAttempt(oid, q)

\* One iteration of the loop of SizeCache.fill.
FillStep ==
    /\ pc = "fill"
    /\ todo # << >>
    /\ FillTop(Peek(todo))
    /\ UNCHANGED <<store, call, pre, done, ncalls, dec, rgb>>

\* fill() finds the list empty and returns nil; TreeSize looks its record up.
FillReturn ==
    /\ pc = "fill"
    /\ todo = << >>
    /\ pc' = "idle"
    /\ ret' = IF call.oid \in DOMAIN treeSizes
              THEN TreeReturn(call.op, call.oid, treeSizes)
              ELSE ErrReturn(call.op, call.oid, "panic", "tree")
    /\ UNCHANGED <<store, blobSizes, treeSizes, todo, call, pre, reqs,
                   writes, done, ncalls, batch, dec, rgb, tried>>

(***************************************************************************)
(* A TreeIter on its own: Tree.Iter() on a payload, then NextEntry until  *)
(* it reports the end or an error, as the loop of queueTree drives it.     *)
(* The payloads are the encodings of up to MaxEntries entries, whole or    *)
(* with the last entry cut short by any number of its bytes.  Names may be *)
(* empty or hold SP, identifiers hold SP and NUL, a mode may start with 0. *)
(***************************************************************************)
MaxEntries == 2

DecodeModes == {DirMode, FileMode, Octal(<<0, 4, 0, 0, 0, 0>>)}

DecodeNames == {<< >>, NameOf(1), <<97, SP, 98>>}

DecodeOids == {OidT1, MkOid(SP)}

DecodeEntries ==
    {[mode |-> m, name |-> n, oid |-> o] :
        m \in DecodeModes, n \in DecodeNames, o \in DecodeOids}

DecodeLists ==
    UNION {[1 .. k -> DecodeEntries] : k \in 0 .. MaxEntries}

\* The cuts of a list's encoding: none, or inside its last entry.
CutsOf(entries) ==
    IF entries = << >> THEN {0}
    ELSE 0 .. (Len(EncodeEntry(entries[Len(entries)])) - 1)

\* Tree.Iter() on the encoding of entries without its last cut bytes.
IterOn(entries, cut) ==
    [entries |-> entries, cut |-> cut,
     data |-> CutShort(EncodeTree(entries), cut),
     out |-> << >>, state |-> "iter", before |-> 0]

InitDecode ==
    /\ store = MkStore(BaseT1, BaseT2, BaseT3, BaseLeaf)
    /\ blobSizes = EmptyMap
    /\ treeSizes = EmptyMap
    /\ todo = << >>
    /\ pc = "idle"
    /\ call = [op |-> "none", oid |-> OidAbsent]
    /\ ret = NoRet
    /\ pre = [blobSizes |-> EmptyMap, treeSizes |-> EmptyMap, todo |-> << >>]
    /\ reqs = [check |-> 0, batch |-> 0]
    /\ writes = EmptyMap
    /\ done = {}
    /\ ncalls = 0
    /\ batch = << >>
    /\ \E entries \in DecodeLists :
           \E cut \in CutsOf(entries) : dec = IterOn(entries, cut)
    /\ rgb = NoBuilder
    /\ tried = EmptyMap

\* The iterator after NextEntry returned n: an error and the end stop the
\* loop, an entry is handed out and the unread data is what NextEntry left.
DecodeOn(d, n) ==
    IF n.err # NoErr THEN [d EXCEPT !.state = "error"]
    ELSE IF ~n.ok THEN [d EXCEPT !.state = "end"]
    ELSE [d EXCEPT !.out = Append(d.out, n.entry),
                   !.before = Len(d.data),
                   !.data = n.rest]

\* One call of NextEntry.
DecodeStep ==
    /\ dec.state = "iter"
    /\ \E n \in {NextEntry(dec.data)} : dec' = DecodeOn(dec, n)
    /\ UNCHANGED <<store, blobSizes, treeSizes, todo, pc, call, ret, pre,
                   reqs, writes, done, ncalls, batch, rgb, tried>>

SpecDecode == InitDecode /\ [][DecodeStep]_vars

(***************************************************************************)
(* The filter options of a RefGroupBuilder (refopts.filterValue).  Strings *)
(* are sequences of characters.  A filter is kept as the list of the       *)
(* (combiner, filter) pairs combined into it, oldest first.                *)
(***************************************************************************)
MaxSets == 2

GroupNames == {<<"a">>, <<"b">>}

\* The arguments handed to Set.
SetArgs ==
    {<< >>, <<"@">>, <<"@", "a">>, <<"@", "b">>, <<"@", "(">>, <<"a">>,
     <<"(">>, <<"/", "a", "/">>, <<"/", "(", "/">>, <<"1">>, <<"0">>}

\* The options: what they combine, their fixed pattern, whether it is a
\* regexp.
FilterValues ==
    [combiner : {"include", "exclude"},
     pattern : {<< >>, <<"a">>, <<"@", "a">>},
     regexp : BOOLEAN]

NoFilter == [kind |-> "none", arg |-> << >>]

\* strconv.ParseBool on the one-character spellings.
ParseBool(s) ==
    IF s = <<"1">> THEN [value |-> TRUE, err |-> NoErr]
    ELSE IF s = <<"0">> THEN [value |-> FALSE, err |-> NoErr]
    ELSE [value |-> FALSE, err |-> "syntax"]

\* git.RegexpFilter: an unclosed group does not compile.
RegexpFilter(pattern) ==
    IF \E i \in DOMAIN pattern : pattern[i] = "("
    THEN [filter |-> NoFilter, err |-> "regexp"]
    ELSE [filter |-> [kind |-> "regexp", arg |-> pattern], err |-> NoErr]

\* git.PrefixFilter.
PrefixFilter(prefix) == [kind |-> "prefix", arg |-> prefix]

\* Combiner.Inverted.
Inverted(combiner) == IF combiner = "include" THEN "exclude" ELSE "include"

\* Combiner.Combine.
Combine(combiner, old, new) ==
    Append(old, [combiner |-> combiner, filter |-> new])

\* interpretFlexibly using the group whether or not it is defined.
interpretFlexiblyNoCheck(groups, s) ==
    IF Len(s) >= 2 /\ s[1] = "/" /\ s[Len(s)] = "/"
    THEN RegexpFilter(SubSeq(s, 2, Len(s) - 1))
    ELSE IF Len(s) >= 1 /\ s[1] = "@"
    THEN IF Tail(s) = << >>
         THEN [filter |-> NoFilter, err |-> "missing refgroup name"]
         ELSE [filter |-> [kind |-> "refgroup", arg |-> Tail(s)],
               err |-> NoErr]
    ELSE [filter |-> PrefixFilter(s), err |-> NoErr]

\* filterValue.interpretFlexibly, with the builder's groups.
interpretFlexibly(groups, s) ==
    IF Len(s) >= 2 /\ s[1] = "/" /\ s[Len(s)] = "/"
    THEN RegexpFilter(SubSeq(s, 2, Len(s) - 1))
    ELSE IF Len(s) >= 1 /\ s[1] = "@"
    THEN IF Tail(s) = << >>
         THEN [filter |-> NoFilter, err |-> "missing refgroup name"]
         ELSE IF Tail(s) \notin groups
         THEN [filter |-> NoFilter, err |-> "undefined refgroup"]
         ELSE [filter |-> [kind |-> "refgroup", arg |-> Tail(s)],
               err |-> NoErr]
    ELSE [filter |-> PrefixFilter(s), err |-> NoErr]

\* Set from the pattern on: the filter of the pattern, or the error.
SetFilterOf(v, groups, s, pattern, combiner) ==
    IF v.regexp
    THEN IF RegexpFilter(pattern).err # NoErr
         THEN [err |-> "invalid regexp", combiner |-> combiner,
               filter |-> NoFilter]
         ELSE [err |-> NoErr, combiner |-> combiner,
               filter |-> RegexpFilter(pattern).filter]
    ELSE [err |-> interpretFlexibly(groups, pattern).err,
          combiner |-> combiner,
          filter |-> interpretFlexibly(groups, pattern).filter]

\* Set up to its last statement: the error, or the filter and its combiner.
SetOutcome(v, groups, s) ==
    IF v.pattern # << >>
    THEN IF ParseBool(s).err # NoErr
         THEN [err |-> ParseBool(s).err, combiner |-> v.combiner,
               filter |-> NoFilter]
         ELSE SetFilterOf(v, groups, s, v.pattern,
                          IF ParseBool(s).value THEN v.combiner
                          ELSE Inverted(v.combiner))
    ELSE SetFilterOf(v, groups, s, s, v.combiner)

\* The builder after Set came to outcome o.
SetOn(v, s, o) ==
    [groups |-> rgb.groups,
     filter |-> IF o.err # NoErr THEN rgb.filter
                ELSE Combine(o.combiner, rgb.filter, o.filter),
     sets |-> rgb.sets + 1,
     last |-> [called |-> TRUE, v |-> v, s |-> s, err |-> o.err,
               pre |-> rgb.filter, defined |-> rgb.groups,
               new |-> o.filter]]

\* filterValue.Set(s) on option v.
Set(v, s) ==
    /\ rgb.sets < MaxSets
    /\ \E o \in {SetOutcome(v, rgb.groups, s)} : rgb' = SetOn(v, s, o)
    /\ UNCHANGED <<store, blobSizes, treeSizes, todo, pc, call, ret, pre,
                   reqs, writes, done, ncalls, batch, dec, tried>>

\* A refgroup of the given name is defined in the builder.
DefineGroup(name) ==
    /\ name \notin rgb.groups
    /\ rgb' = [rgb EXCEPT !.groups = rgb.groups \cup {name}]
    /\ UNCHANGED <<store, blobSizes, treeSizes, todo, pc, call, ret, pre,
                   reqs, writes, done, ncalls, batch, dec, tried>>

InitFilter ==
    /\ store = MkStore(BaseT1, BaseT2, BaseT3, BaseLeaf)
    /\ blobSizes = EmptyMap
    /\ treeSizes = EmptyMap
    /\ todo = << >>
    /\ pc = "idle"
    /\ call = [op |-> "none", oid |-> OidAbsent]
    /\ ret = NoRet
    /\ pre = [blobSizes |-> EmptyMap, treeSizes |-> EmptyMap, todo |-> << >>]
    /\ reqs = [check |-> 0, batch |-> 0]
    /\ writes = EmptyMap
    /\ done = {}
    /\ ncalls = 0
    /\ batch = << >>
    /\ dec = NoDecode
    /\ rgb = NoBuilder
    /\ tried = EmptyMap

NextFilter ==
    \/ \E v \in FilterValues : \E s \in SetArgs : Set(v, s)
    \/ \E name \in GroupNames : DefineGroup(name)

SpecFilter == InitFilter /\ [][NextFilter]_vars

\* The identifiers each operation is called with.
TreeSizeArgs == {OidAbsent, OidT1, OidT2, OidT3, OidLeaf}

BlobSizeArgs == {OidAbsent, OidLeaf, OidT3}

ObjectSizeArgs == {OidAbsent, OidLeaf, OidT1, OidT3, OidCommit, OidTag}

Next ==
    \/ \E oid \in TreeSizeArgs : CallTreeSize(oid)
    \/ \E oid \in BlobSizeArgs : CallBlobSize(oid)
    \/ \E oid \in ObjectSizeArgs : CallObjectSize(oid)
    \/ FillStep
    \/ FillReturn

Spec == Init /\ [][Next]_vars

\* fill() is a loop of synchronous code: once entered it keeps running.
SpecFair == Spec /\ WF_vars(FillStep) /\ WF_vars(FillReturn)

(***************************************************************************)
(* What the claims speak of: the entries a tree was written from, their    *)
(* kinds, and the sums and maxima over them.                               *)
(***************************************************************************)
\* The kind of an entry as the store wrote it.
EntKind(e) ==
    IF e.mode = DirMode THEN "tree"
    ELSE IF e.mode = GitlinkMode THEN "submodule"
    ELSE IF e.mode = LinkMode THEN "link"
    ELSE "blob"

EntriesOf(oid) == Lookup(oid).entries

\* The identifiers of the subtree entries of a list of entries.
SubtreeOids(entries) ==
    {entries[i].oid : i \in {j \in DOMAIN entries : EntKind(entries[j]) = "tree"}}

RECURSIVE CountKind(_, _)
CountKind(entries, kind) ==
    IF entries = << >> THEN 0
    ELSE (IF EntKind(Head(entries)) = kind THEN 1 ELSE 0)
         + CountKind(Tail(entries), kind)

\* The sum of field f of the stored records over the subtree entries, each
\* entry counted once.
RECURSIVE SumField(_, _)
SumField(entries, f) ==
    IF entries = << >> THEN 0
    ELSE (IF EntKind(Head(entries)) = "tree"
          THEN treeSizes[Head(entries).oid][f] ELSE 0)
         + SumField(Tail(entries), f)

\* The bytes of the blob entries, by the store's headers.
RECURSIVE BlobBytes(_)
BlobBytes(entries) ==
    IF entries = << >> THEN 0
    ELSE (IF EntKind(Head(entries)) = "blob"
          THEN Lookup(Head(entries).oid).size ELSE 0)
         + BlobBytes(Tail(entries))

Max2(a, b) == IF a > b THEN a ELSE b

Min2(a, b) == IF a < b THEN a ELSE b

\* A field equals a sum whenever the sum does not overflow.
Conserved(field, sum) == sum <= MaxCount => field = sum

ConservedIn(rec, entries) ==
    /\ Conserved(rec.TreeCount, 1 + SumField(entries, "TreeCount"))
    /\ Conserved(rec.BlobCount,
                 CountKind(entries, "blob") + SumField(entries, "BlobCount"))
    /\ Conserved(rec.BlobSize,
                 BlobBytes(entries) + SumField(entries, "BlobSize"))
    /\ Conserved(rec.LinkCount,
                 CountKind(entries, "link") + SumField(entries, "LinkCount"))
    /\ Conserved(rec.SubmoduleCount,
                 CountKind(entries, "submodule")
                 + SumField(entries, "SubmoduleCount"))

\* C1. Count conservation: every stored record has TreeCount = 1 + the sum
\* of TreeCount over its subtree entries, BlobCount = its blob entries + the
\* sum of BlobCount over its subtree entries, likewise LinkCount and
\* SubmoduleCount, and BlobSize = the bytes of its blob entries + the sum of
\* BlobSize over its subtree entries, each entry contributing once, wherever
\* the sum does not overflow; whatever was asked and memoized before.
C1_CountConservation ==
    \A t \in DOMAIN treeSizes :
        /\ SubtreeOids(EntriesOf(t)) \subseteq DOMAIN treeSizes
        /\ ConservedIn(treeSizes[t], EntriesOf(t))

\* A stored tree with the same subtree under two entries and a blob entry
\* whose blob was memoized before this call, no sum overflowing.
WitnessC1Tree(t, entries) ==
    /\ Len(entries) = 3
    /\ CountKind(entries, "tree") = 2
    /\ Cardinality(SubtreeOids(entries)) = 1
    /\ treeSizes[t].TreeCount = 1 + SumField(entries, "TreeCount")
    /\ treeSizes[t].TreeCount >= 3
    /\ treeSizes[t].BlobCount
         = 1 + SumField(entries, "BlobCount")
    /\ treeSizes[t].BlobCount > 1

C1_Witness ==
    /\ ncalls = 2
    /\ pre.blobSizes # EmptyMap
    /\ \E t \in DOMAIN treeSizes \ DOMAIN pre.treeSizes :
           WitnessC1Tree(t, EntriesOf(t))

\* The maximum of field f of the stored records over the subtree entries.
RECURSIVE MaxField(_, _)
MaxField(entries, f) ==
    IF entries = << >> THEN 0
    ELSE Max2(IF EntKind(Head(entries)) = "tree"
              THEN treeSizes[Head(entries).oid][f] ELSE 0,
              MaxField(Tail(entries), f))

DepthOf(entries) ==
    IF entries = << >> THEN 1
    ELSE IF CountKind(entries, "tree") = 0 THEN 2
    ELSE Min2(MaxCount, 1 + MaxField(entries, "MaxDepth"))

\* n > 0 when the tree at oid heads a chain of n single-entry trees ending
\* in one blob; 0 otherwise.
RECURSIVE ChainLen(_)
ChainUnder(n) == IF n = 0 THEN 0 ELSE n + 1

ChainEntry(e) ==
    IF EntKind(e) = "blob" THEN 1
    ELSE IF EntKind(e) = "tree" THEN ChainUnder(ChainLen(e.oid))
    ELSE 0

ChainLen(oid) ==
    IF Lookup(oid).type = "tree" /\ Len(EntriesOf(oid)) = 1
    THEN ChainEntry(EntriesOf(oid)[1])
    ELSE 0

ChainLaw(rec, n) ==
    n > 0 => /\ rec.MaxDepth = Min2(n + 1, MaxCount)
             /\ rec.TreeCount = Min2(n, MaxCount)

\* C2. Depth law: a stored record has MaxDepth = 1 for a tree with no
\* entries, 2 for a tree whose entries are all blobs, links or submodules,
\* and 1 + the maximum MaxDepth of its subtree children (saturating)
\* otherwise; the head of a chain of n single-entry trees ending in one blob
\* has MaxDepth = n + 1 and TreeCount = n.
C2_DepthLaw ==
    \A t \in DOMAIN treeSizes :
        /\ treeSizes[t].MaxDepth = DepthOf(EntriesOf(t))
        /\ ChainLaw(treeSizes[t], ChainLen(t))

\* The head of a chain of three trees is stored, over a stored tree that
\* has subtrees and leaves.
C2_Witness ==
    /\ OidT1 \in DOMAIN treeSizes
    /\ ChainLen(OidT1) = 3
    /\ treeSizes[OidT1].MaxDepth = 4
    /\ treeSizes[OidT1].TreeCount = 3

\* The length an entry contributes, the sum not capped.
PathTermPlain(e) ==
    IF EntKind(e) = "tree" /\ treeSizes[e.oid].MaxPathLength > 0
    THEN Len(e.name) + 1 + treeSizes[e.oid].MaxPathLength
    ELSE Len(e.name)

\* The length an entry contributes, the sum capped as addCapped caps it.
PathTerm(e) == Min2(MaxCount, PathTermPlain(e))

RECURSIVE PathOfPlain(_)
PathOfPlain(entries) ==
    IF entries = << >> THEN 0
    ELSE Max2(PathTermPlain(Head(entries)), PathOfPlain(Tail(entries)))

RECURSIVE PathOf(_)
PathOf(entries) ==
    IF entries = << >> THEN 0
    ELSE Max2(PathTerm(Head(entries)), PathOf(Tail(entries)))

\* C3, as claimed. Path-length law: MaxPathLength of a stored record is the
\* maximum over its entries of len(name) for a blob, link or submodule and
\* for a subtree whose MaxPathLength is 0, and len(name) + 1 +
\* child.MaxPathLength for a subtree whose MaxPathLength is greater than 0.
C3_PathLengthUncapped ==
    \A t \in DOMAIN treeSizes :
        treeSizes[t].MaxPathLength = PathOfPlain(EntriesOf(t))

\* C3, amended. The same law with the sum len(name) + 1 +
\* child.MaxPathLength capped at the largest counter value, as addCapped
\* caps it.
C3_PathLengthCapped ==
    \A t \in DOMAIN treeSizes :
        treeSizes[t].MaxPathLength = PathOf(EntriesOf(t))

\* A stored tree over an empty subtree (no separator added) and a stored
\* tree over a subtree with paths (separator added).
C3_Witness ==
    /\ {OidT1, OidT2, OidT3} \subseteq DOMAIN treeSizes
    /\ treeSizes[OidT3].MaxPathLength = 0
    /\ treeSizes[OidT2].MaxPathLength = 2
    /\ treeSizes[OidT2].MaxPathLength = PathOfPlain(EntriesOf(OidT2))
    /\ treeSizes[OidT1].MaxPathLength = 5
    /\ treeSizes[OidT1].MaxPathLength = PathOfPlain(EntriesOf(OidT1))

NoReqs == [check |-> 0, batch |-> 0]

\* C4. Idempotence: once TreeSize(id) has returned a record, a later
\* TreeSize(id) returns at once with the identical record, writes no request
\* to either channel and leaves both tables and the work list as they were.
C4_Idempotent ==
    \A r \in done :
        (r.op = "TreeSize" /\ r.err = NoErr
         /\ call.op = "TreeSize" /\ call.oid = r.oid)
        => /\ pc = "idle"
           /\ ret.err = NoErr
           /\ ret.tree = r.tree
           /\ reqs = NoReqs
           /\ Snapshot = pre

\* A second TreeSize of a tree with subtrees has returned.
C4_Witness ==
    /\ pc = "idle"
    /\ call = [op |-> "TreeSize", oid |-> OidT1]
    /\ ret.err = NoErr
    /\ ret.tree.TreeCount >= 3
    /\ \E r \in done : r.op = "TreeSize" /\ r.oid = OidT1 /\ r.err = NoErr

\* C5. DAG collapse: treeSizes[oid] is assigned at most once for every
\* identifier, under whatever sequence of calls; an identifier in the table
\* was assigned exactly once (so never assigned again, nor removed), and so
\* was every subtree of a tree in the table.
C5_WrittenOnce ==
    /\ \A oid \in AllOids :
          /\ WriteCount(oid) <= 1
          /\ oid \in DOMAIN treeSizes <=> WriteCount(oid) = 1
    /\ \A t \in DOMAIN treeSizes :
          \A c \in SubtreeOids(EntriesOf(t)) : WriteCount(c) = 1

\* The list still holds two occurrences of a subtree that was written once,
\* under the two pending parents that refer to it.
OccurrencesIn(list, oid) ==
    Cardinality({i \in DOMAIN list : list[i] = oid})

C5_Witness ==
    /\ pc = "fill"
    /\ OccurrencesIn(todo, OidT3) >= 2
    /\ OidT3 \in DOMAIN treeSizes
    /\ OccurrencesIn(todo, OidT2) = 1
    /\ OccurrencesIn(todo, OidT1) = 1
    /\ OidT3 \in SubtreeOids(EntriesOf(OidT1))
    /\ OidT3 \in SubtreeOids(EntriesOf(OidT2))
    /\ WriteCount(OidT3) = 1

\* Every object reachable from the tree at oid is present, of the type its
\* entry's mode says, and every tree payload is the encoding of its entries.
RECURSIVE Sound(_)
EntrySound(e) ==
    IF EntKind(e) = "tree" THEN Sound(e.oid)
    ELSE IF EntKind(e) = "blob" THEN Lookup(e.oid).type = "blob"
    ELSE TRUE

SoundObject(obj) ==
    /\ obj.type = "tree"
    /\ obj.data = EncodeTree(obj.entries)
    /\ \A i \in DOMAIN obj.entries : EntrySound(obj.entries[i])

Sound(oid) == SoundObject(Lookup(oid))

\* C6, as claimed. After a call has returned an error, a TreeSize of a tree
\* whose whole reachable graph is present and well-formed returns its record
\* without error.
C6_ErrorAbortsOnlyItsCall ==
    (/\ pc = "idle"
     /\ ret.op = "TreeSize"
     /\ Sound(ret.oid)
     /\ \E r \in done : r.err # NoErr)
    => ret.err = NoErr

\* The payload of obj ends inside the identifier of its last entry.
TruncatedInOid(obj) ==
    /\ obj.type = "tree"
    /\ obj.entries # << >>
    /\ \E k \in 1 .. OidLen :
          obj.data = CutShort(EncodeTree(obj.entries), k)

\* C7, as claimed. TreeSize of a tree whose payload is truncated inside an
\* entry's identifier returns a format error and leaves the blob table, the
\* tree table and the work list as they were before the call.
C7_TruncatedLeavesCache ==
    (/\ pc = "idle"
     /\ ret.op = "TreeSize"
     /\ TruncatedInOid(Lookup(ret.oid)))
    => (ret.err = "format" /\ Snapshot = pre)

\* C8, as claimed. A lookup (ObjectSize, BlobSize or TreeSize) of an
\* identifier the store reports missing ends by returning the missing-object
\* error, and adds no entry to the blob table or to the tree table.
C8_MissingAddsNothing ==
    (/\ pc \in {"idle", "crashed"}
     /\ ret.op # "none"
     /\ Lookup(ret.oid).type = "missing")
    => /\ ret.err = "missing"
       /\ blobSizes = pre.blobSizes
       /\ treeSizes = pre.treeSizes

\* BlobSize of a missing identifier has returned, on a cache that holds
\* records.
C8_Witness ==
    /\ pc = "idle"
    /\ ret.op = "BlobSize"
    /\ Lookup(ret.oid).type = "missing"
    /\ ret.err = "missing"
    /\ treeSizes # EmptyMap
    /\ blobSizes # EmptyMap

SumFields ==
    {"TreeCount", "BlobCount", "BlobSize", "LinkCount", "SubmoduleCount"}

\* C9. Saturation: addCapped(a, b) is a + b when that is at most the largest
\* counter value, and the largest counter value otherwise; and no sum field
\* or MaxDepth of a stored record is smaller than the same field of the
\* record of any of its subtrees.
C9_Saturation ==
    /\ \A a \in Counts : \A b \in Counts :
          addCapped(a, b) = Min2(a + b, MaxCount)
    /\ \A t \in DOMAIN treeSizes :
          \A c \in SubtreeOids(EntriesOf(t)) :
              \A f \in SumFields \cup {"MaxDepth"} :
                  treeSizes[t][f] >= treeSizes[c][f]

\* A stored tree whose blob bytes overflow: the sum over its entries exceeds
\* the largest counter value and the field holds that value.
SaturatedAt(t, entries) ==
    /\ CountKind(entries, "tree") > 0
    /\ BlobBytes(entries) + SumField(entries, "BlobSize") > MaxCount
    /\ treeSizes[t].BlobSize = MaxCount

C9_Witness == \E t \in DOMAIN treeSizes : SaturatedAt(t, EntriesOf(t))

\* A traversal (TreeSize, or ObjectSize of a tree) of a sound graph that
\* started with an empty work list.
SoundTraversal ==
    /\ call.op \in {"TreeSize", "ObjectSize"}
    /\ pre.todo = << >>
    /\ Sound(call.oid)

\* C10. Termination: a TreeSize call on a sound, acyclic graph that starts
\* with an empty work list eventually returns, and when it has returned the
\* work list is empty.
C10_Termination ==
    /\ [](SoundTraversal /\ pc = "idle" => todo = << >> /\ ret.err = NoErr)
    /\ (SoundTraversal /\ pc = "fill") ~> (SoundTraversal /\ pc = "idle")

\* A traversal of a sound graph has returned after at least five tree reads.
C10_Witness ==
    /\ SoundTraversal
    /\ call.op = "TreeSize"
    /\ pc = "idle"
    /\ todo = << >>
    /\ ret.err = NoErr
    /\ reqs.batch >= 5

(***************************************************************************)
(* ObjectSize's dispatch on the header type.                               *)
(***************************************************************************)
\* What ObjectSize must have returned for a blob: the header's size, which is
\* also what BlobSize returns for the identifier.
ObjectSizeOfBlob(obj) ==
    /\ ret.err = NoErr
    /\ ret.type = "blob"
    /\ ret.blob = ToCount(obj.size)
    /\ BlobSizeOf(blobSizes, ret.oid).err = NoErr
    /\ BlobSizeOf(blobSizes, ret.oid).size = ret.blob
    /\ \A r \in done :
           (r.op = "BlobSize" /\ r.oid = ret.oid) =>
               r.err = NoErr /\ r.blob = ret.blob

\* What ObjectSize must have returned for a tree: what TreeSize returns.
ObjectSizeOfTree ==
    /\ ret.type = "tree"
    /\ ret.err = NoErr => /\ ret.oid \in DOMAIN treeSizes
                          /\ ret.tree = treeSizes[ret.oid]
    /\ \A r \in done :
           (r.op = "TreeSize" /\ r.oid = ret.oid /\ r.err = NoErr) =>
               ret.err = NoErr /\ ret.tree = r.tree /\ reqs.batch = 0

\* What ObjectSize must have returned for a commit or a tag.
ObjectSizeOfOther(obj) ==
    /\ ret.err = "type"
    /\ ret.type = obj.type
    /\ Snapshot = pre

ObjectSizeDispatch(obj) ==
    IF obj.type = "blob" THEN ObjectSizeOfBlob(obj)
    ELSE IF obj.type = "tree" THEN ObjectSizeOfTree
    ELSE IF obj.type \in {"commit", "tag"} THEN ObjectSizeOfOther(obj)
    ELSE ret.err = "missing"

\* C11. ObjectSize dispatches on the header type: a blob gives type blob
\* and the header's size, the size BlobSize returns; a tree gives type tree
\* and the record TreeSize returns; a commit or a tag gives an
\* unexpected-type error and leaves both tables and the work list unchanged.
\* A TreeSize after an ObjectSize of the same tree returns the same record.
C11_ObjectSizeDispatch ==
    /\ (pc = "idle" /\ ret.op = "ObjectSize")
           => ObjectSizeDispatch(Lookup(ret.oid))
    /\ \A r \in done :
           (/\ r.op = "ObjectSize" /\ r.type = "tree" /\ r.err = NoErr
            /\ pc = "idle" /\ ret.op = "TreeSize" /\ ret.oid = r.oid)
           => ret.err = NoErr /\ ret.tree = r.tree

\* ObjectSize of a commit has returned its error on a cache that an earlier
\* call left with records and with an identifier on the work list.
C11_Witness ==
    /\ pc = "idle"
    /\ ret.op = "ObjectSize"
    /\ Lookup(ret.oid).type = "commit"
    /\ ret.err = "type"
    /\ treeSizes # EmptyMap
    /\ todo # << >>

(***************************************************************************)
(* What TreeCount counts.                                                  *)
(***************************************************************************)
\* The tree objects reachable from oid in the store, oid included.
RECURSIVE ReachableTrees(_)
ReachableTrees(oid) ==
    {oid} \cup UNION {ReachableTrees(c) : c \in SubtreeOids(EntriesOf(oid))}

\* The trees met on the paths from oid in the store, oid included: a tree is
\* counted once for every path that leads to it.
RECURSIVE TreePaths(_)
RECURSIVE TreePathsIn(_)
TreePathsIn(entries) ==
    IF entries = << >> THEN 0
    ELSE (IF EntKind(Head(entries)) = "tree"
          THEN TreePaths(Head(entries).oid) ELSE 0)
         + TreePathsIn(Tail(entries))

TreePaths(oid) == 1 + TreePathsIn(EntriesOf(oid))

\* C12, as claimed. TreeCount of a stored record is the number of distinct
\* tree objects in the subtree, the tree itself included (capped at the
\* largest counter value): a shared tree is counted once.
C12_DistinctTrees ==
    \A t \in DOMAIN treeSizes :
        treeSizes[t].TreeCount
            = Min2(MaxCount, Cardinality(ReachableTrees(t)))

\* C12, amended. TreeCount of a stored record is the number of trees met on
\* the paths from the tree, the tree itself included (capped at the largest
\* counter value): a tree reachable through several entries or paths is
\* counted once for each of them.
C12_TreeOccurrences ==
    \A t \in DOMAIN treeSizes :
        treeSizes[t].TreeCount = Min2(MaxCount, TreePaths(t))

\* A stored tree that reaches one subtree through two entries: more tree
\* occurrences than distinct trees, below the cap.
C12_Witness ==
    \E t \in DOMAIN treeSizes :
        /\ TreePaths(t) > Cardinality(ReachableTrees(t))
        /\ TreePaths(t) < MaxCount
        /\ treeSizes[t].TreeCount = TreePaths(t)

(***************************************************************************)
(* The length of the work list during a traversal.                        *)
(***************************************************************************)
RECURSIVE MaxOver(_, _)
\* The largest F[c] over c in S, 0 for the empty set.
MaxOver(F, S) ==
    IF S = {} THEN 0
    ELSE LET c == CHOOSE x \in S : TRUE
         IN  Max2(F[c], MaxOver(F, S \ {c}))

\* The tree levels on the longest lineage from oid: 1 for a tree without
\* subtrees.
RECURSIVE TreeLevels(_)
TreeLevels(oid) ==
    1 + MaxOver([c \in SubtreeOids(EntriesOf(oid)) |-> TreeLevels(c)],
                SubtreeOids(EntriesOf(oid)))

\* The largest total of subtree entries of the trees along one lineage of
\* descendants of oid, oid included.
RECURSIVE LineageReferents(_)
LineageReferents(oid) ==
    CountKind(EntriesOf(oid), "tree")
    + MaxOver([c \in SubtreeOids(EntriesOf(oid)) |-> LineageReferents(c)],
              SubtreeOids(EntriesOf(oid)))

\* A TreeSize or ObjectSize that found the work list empty.
FreshTraversal ==
    /\ call.op \in {"TreeSize", "ObjectSize"}
    /\ pre.todo = << >>

\* C13, as claimed. During a traversal the work list is never longer than
\* the number of tree levels along a single lineage of the tree being sized.
C13_StackWithinDepth ==
    FreshTraversal => Len(todo) <= TreeLevels(call.oid)

\* C13, amended. During a traversal the work list is never longer than 1
\* (the tree being sized) plus the total number of subtree entries of the
\* trees along a single lineage of its descendants.
C13_StackWithinReferents ==
    FreshTraversal => Len(todo) <= 1 + LineageReferents(call.oid)

\* A traversal whose work list is longer than the tree is deep and as long
\* as the amended bound allows.
C13_Witness ==
    /\ FreshTraversal
    /\ pc = "fill"
    /\ Len(todo) > TreeLevels(call.oid)
    /\ Len(todo) = 1 + LineageReferents(call.oid)

(***************************************************************************)
(* The request/response exchange on the --batch channel.  ReadHeader reads *)
(* the one line of its response on the --batch-check channel in every      *)
(* case; ReadTree reads the header line and, for a tree only, the payload. *)
(***************************************************************************)
\* fill() is about to call queueTree, whose ReadTree writes a request.
AboutToRequest ==
    /\ pc = "fill"
    /\ todo # << >>
    /\ Peek(todo) \notin DOMAIN treeSizes

\* C14, as claimed. Whenever a request is written to the --batch channel,
\* the response to every earlier request has been consumed completely, also
\* after calls that failed with missing or type-mismatch errors.
C14_StrictExchange == AboutToRequest => batch = << >>

(***************************************************************************)
(* Decoding the tree format.                                               *)
(***************************************************************************)
\* The number an octal mode writes, digit by digit.
RECURSIVE ModeValue(_)
ModeValue(digits) ==
    IF digits = << >> THEN 0
    ELSE OctalBase * ModeValue(SubSeq(digits, 1, Len(digits) - 1))
         + (digits[Len(digits)] - Digit0)

\* The entry NextEntry must hand out for an encoded entry.
Decoded(e) ==
    [Name |-> e.name, Oid |-> e.oid, Filemode |-> ModeValue(e.mode)]

\* The entries encoded whole in the payload.
WholeEntries(d) ==
    IF d.cut = 0 THEN Len(d.entries) ELSE Len(d.entries) - 1

\* C15. Tree decoding: NextEntry over the encoding of a list of entries
\* hands out exactly those entries, in order, and then reports the end;
\* every NextEntry that hands out an entry leaves less unread data than it
\* found; and a payload whose last entry is cut short (no SP after the
\* mode, no NUL after the name, or fewer than 20 bytes of identifier) gives
\* an error in place of that entry, never the end.
C15_TreeDecoding ==
    dec.state # "off" =>
        /\ Len(dec.out) <= WholeEntries(dec)
        /\ \A i \in DOMAIN dec.out : dec.out[i] = Decoded(dec.entries[i])
        /\ dec.out # << >> => Len(dec.data) < dec.before
        /\ dec.state = "end" =>
               dec.cut = 0 /\ Len(dec.out) = Len(dec.entries)
        /\ dec.state = "error" =>
               dec.cut > 0 /\ Len(dec.out) = WholeEntries(dec)

\* Two entries decoded to the end: a name with SP, an identifier that
\* starts with SP, a mode written with a leading 0.
C15_Witness ==
    /\ dec.state = "end"
    /\ Len(dec.out) = MaxEntries
    /\ dec.out[1].Name = <<97, SP, 98>>
    /\ dec.out[1].Oid = MkOid(SP)
    /\ dec.out[2].Filemode = ModeValue(DirMode)
    /\ dec.entries[2].mode # DirMode

(***************************************************************************)
(* Refgroup names in filter options.                                       *)
(***************************************************************************)
\* The argument of the last Set has the form @name, the name maybe empty.
AtForm == rgb.last.s # << >> /\ rgb.last.s[1] = "@"

\* The last Set named no refgroup, or one the builder had not defined.
NoSuchGroup == Tail(rgb.last.s) \notin rgb.last.defined

\* The combiner the last Set used: the option's, inverted by a false value.
UsedCombiner ==
    IF rgb.last.v.pattern # << >> /\ rgb.last.s = <<"0">>
    THEN Inverted(rgb.last.v.combiner)
    ELSE rgb.last.v.combiner

\* A filter resolves to a refgroup only if the builder had it defined, and
\* the top-level filter changes only when Set succeeds, to the combination.
SetResolvesAndCombines ==
    /\ rgb.last.err = NoErr /\ rgb.last.new.kind = "refgroup" =>
           rgb.last.new.arg \in rgb.last.defined
    /\ rgb.last.err # NoErr => rgb.filter = rgb.last.pre
    /\ rgb.last.err = NoErr =>
           rgb.filter = Append(rgb.last.pre, [combiner |-> UsedCombiner,
                                              filter |-> rgb.last.new])

\* C16, as claimed. An argument @name resolves to the filter of refgroup
\* name only if the builder has that refgroup defined when Set is called;
\* for @ alone or an undefined name Set returns an error and leaves the
\* top-level filter unchanged; the filter is replaced by the combination
\* only when Set succeeds.
C16_AtNameAlwaysChecked ==
    rgb.last.called =>
        /\ SetResolvesAndCombines
        /\ AtForm /\ NoSuchGroup =>
               rgb.last.err # NoErr /\ rgb.filter = rgb.last.pre

\* C16, amended. As claimed for every option that is not a regexp option;
\* an option with regexp set and no fixed pattern compiles @name as a
\* regular expression: whatever refgroups are defined, Set fails only with
\* "invalid regexp" and otherwise combines the regexp filter of @name.
C16_AtNameCheckedUnlessRegexp ==
    rgb.last.called =>
        /\ SetResolvesAndCombines
        /\ AtForm /\ NoSuchGroup /\ ~rgb.last.v.regexp =>
               rgb.last.err # NoErr /\ rgb.filter = rgb.last.pre
        /\ AtForm /\ ~NoSuchGroup /\ rgb.last.err = NoErr
             /\ ~rgb.last.v.regexp =>
               rgb.last.new = [kind |-> "refgroup", arg |-> Tail(rgb.last.s)]
        /\ AtForm /\ rgb.last.v.regexp /\ rgb.last.v.pattern = << >> =>
               /\ rgb.last.err \in {NoErr, "invalid regexp"}
               /\ rgb.last.err = NoErr =>
                      rgb.last.new = [kind |-> "regexp", arg |-> rgb.last.s]

\* A flexible option was set to @b with only refgroup a defined, after an
\* earlier Set had put a filter in place: it failed and changed nothing.
C16_Witness ==
    /\ rgb.last.called
    /\ rgb.last.s = <<"@", "b">>
    /\ ~rgb.last.v.regexp
    /\ rgb.last.v.pattern = << >>
    /\ rgb.last.defined = {<<"a">>}
    /\ rgb.last.err = "undefined refgroup"
    /\ rgb.last.pre # << >>
    /\ rgb.filter = rgb.last.pre

(***************************************************************************)
(* The abort at the end of TreeSize.                                       *)
(***************************************************************************)
\* fill() has found the list empty and is about to return nil.
FillReturnsNil == pc = "fill" /\ todo = << >>

\* C17. The abort at the end of TreeSize is unreachable: whenever fill()
\* returns nil after TreeSize pushed an identifier, cache.treeSizes holds a
\* record for that identifier, whatever the store and whatever calls came
\* before, failed ones included; no call ever returns the abort.
C17_AbortUnreachable ==
    /\ FillReturnsNil => call.oid \in DOMAIN treeSizes
    /\ ret.err # "panic"
    /\ \A r \in done : r.err # "panic"

\* fill() returns nil to a TreeSize that pushed its identifier after an
\* earlier call had failed.
C17_Witness ==
    /\ FillReturnsNil
    /\ call.op = "TreeSize"
    /\ call.oid \notin DOMAIN pre.treeSizes
    /\ call.oid \in DOMAIN treeSizes
    /\ \E r \in done : r.err # NoErr

(***************************************************************************)
(* Children before parents.                                                *)
(***************************************************************************)
\* The identifiers of the blob entries of a list of entries.
BlobOids(entries) ==
    {entries[i].oid : i \in {j \in DOMAIN entries : EntKind(entries[j]) = "blob"}}

\* The trees this step stores a record for.
StoredNow == {t \in AllOids : t \in DOMAIN treeSizes' /\ t \notin DOMAIN treeSizes}

\* C18. Children before parents: whenever cache.treeSizes holds a record
\* for a tree, it holds one for every subtree entry of the tree and
\* cache.blobSizes holds a size for every blob entry; and a record is stored
\* only by an attempt that found every subtree entry in cache.treeSizes, so
\* a partial tally is never stored.
C18_ChildrenBeforeParents ==
    /\ [](\A t \in DOMAIN treeSizes :
             /\ SubtreeOids(EntriesOf(t)) \subseteq DOMAIN treeSizes
             /\ BlobOids(EntriesOf(t)) \subseteq DOMAIN blobSizes)
    /\ [][\A t \in StoredNow :
             /\ SubtreeOids(EntriesOf(t)) \subseteq DOMAIN treeSizes
             /\ BlobOids(EntriesOf(t)) \subseteq DOMAIN blobSizes'
             /\ writes'[t] = 1]_vars

\* A tree with subtree and blob entries is stored by this call, after an
\* attempt on it that found a subtree missing from the table.
C18_Witness ==
    /\ OidT1 \in DOMAIN treeSizes
    /\ OidT1 \notin DOMAIN pre.treeSizes
    /\ SubtreeOids(EntriesOf(OidT1)) # {}
    /\ BlobOids(EntriesOf(OidT1)) # {}
    /\ SubtreeOids(EntriesOf(OidT1)) \cap DOMAIN pre.treeSizes = {}
    /\ reqs.batch > Cardinality(DOMAIN treeSizes \ DOMAIN pre.treeSizes)

(***************************************************************************)
(* How often a tree is attempted.                                          *)
(***************************************************************************)
\* No call so far has returned an error.
NoErrorsSoFar == ret.err = NoErr /\ \A r \in done : r.err = NoErr

\* fill() is about to call queueTree on the tree on top of the list, whose
\* subtree entries all have records.
AttemptWithChildrenKnown ==
    /\ pc = "fill"
    /\ todo # << >>
    /\ Peek(todo) \notin DOMAIN treeSizes
    /\ SubtreeOids(EntriesOf(Peek(todo))) \subseteq DOMAIN treeSizes

\* C19. In a history without errors each tree is attempted by queueTree at
\* most twice over the lifetime of the cache: at most once ending in
\* NotYetKnown and at most once, and once every call has returned exactly
\* once if it was attempted at all, ending in a stored record; and a tree
\* with no subtree entry missing from the table is stored by its first
\* attempt.
C19_AtMostTwoAttempts ==
    /\ [](NoErrorsSoFar =>
            \A t \in AllOids :
                /\ TriedCount(t) <= 1
                /\ WriteCount(t) <= 1
                /\ TriedCount(t) + WriteCount(t) <= 2
                /\ pc = "idle" /\ TriedCount(t) > 0 => WriteCount(t) = 1)
    /\ [][AttemptWithChildrenKnown /\ NoErrorsSoFar'
            => /\ Peek(todo) \in DOMAIN treeSizes'
               /\ tried' = tried]_vars

\* Two calls have returned without error; one tree was attempted twice,
\* another stored by its only attempt, and a tree asked for again later was
\* not attempted again.
C19_Witness ==
    /\ pc = "idle"
    /\ ncalls = MaxCalls
    /\ NoErrorsSoFar
    /\ \E t \in AllOids : TriedCount(t) = 1 /\ WriteCount(t) = 1
    /\ \E t \in AllOids : TriedCount(t) = 0 /\ WriteCount(t) = 1
    /\ call.oid \in DOMAIN pre.treeSizes

(***************************************************************************)
(* The work list between top-level calls.                                  *)
(***************************************************************************)
\* C20. Whenever a TreeSize or ObjectSize call has returned without error
\* the work list is empty, and identifiers are on the work list between
\* top-level calls only if some call has returned an error.
C20_SuccessLeavesListEmpty ==
    pc = "idle" =>
        /\ ret.op \in {"TreeSize", "ObjectSize"} /\ ret.err = NoErr =>
               todo = << >>
        /\ todo # << >> =>
               ret.err # NoErr \/ \E r \in done : r.err # NoErr

====
